---- MODULE Spec2Model ----
(***************************************************************************)
(* Model of cache3's BaseCache (src/src/cache3/base.py): the key codec,    *)
(* the configuration fields and config(), the evictor property, get_many   *)
(* and the memoize wrapper.  The storage primitives (set / get / delete),  *)
(* the field validators (cache3.validate) and the constants                *)
(* (cache3.setting) live outside base.py; they are modelled from their     *)
(* documented contract.                                                    *)
(***************************************************************************)
EXTENDS Integers, Sequences, FiniteSets, TLC

VARIABLES
    inKey,      \* key codec: the raw key handed to make_key
    inTag,      \* key codec: the tag handed to make_key
    name,       \* BaseCache._name      (stored by the name descriptor)
    timeout,    \* BaseCache._timeout   (stored by the timeout descriptor)
    max_size,   \* BaseCache._max_size  (stored by the max_size descriptor)
    evict,      \* BaseCache._evict     (stored by the evict descriptor)
    cull_size,  \* BaseCache._cull_size (stored by the cull_size descriptor)
    members,    \* attributes of the backend object that getattr can find
    store,      \* backend storage: storage key -> entry
    now,        \* the clock read by current()
    pc,         \* per caller: position inside the memoize wrapper
    local,      \* per caller: the wrapper's locals (func, args, value)
    invoked,    \* history: invocations of the memoized computations per storage key
    completed,  \* history: completed wrapper calls per storage key
    decorators, \* the decorators memoize() has returned
    wrappers,   \* the wrappers those decorators have built
    ret         \* outcome of the last operation

vars == <<inKey, inTag, name, timeout, max_size, evict, cull_size, members, store, now, pc, local,
          invoked, completed, decorators, wrappers, ret>>

----------------------------------------------------------------------------
(* Bounds of the model *)

MaxLen == 2          \* longest raw key / tag drawn as input
MaxInt == 11         \* largest non-textual (integer) raw key
MaxCull == 2         \* largest cull_size option supplied to config()
MaxClock == 2        \* the clock stops advancing here
MaxCalls == 2        \* wrapper calls counted per storage key between removals
MaxProcs == 2        \* concurrent callers of a memoized computation
MaxKeys == 2         \* longest list of keys handed to get_many
MaxVal == 2          \* counters stay within -MaxVal..MaxVal

Alphabet == {"a", ":"}

----------------------------------------------------------------------------
(* Python values: a uniform record so that any two values are comparable *)

PyStr(s) == [ty |-> "str", s |-> s, n |-> 0]
PyInt(n) == [ty |-> "int", s |-> <<>>, n |-> n]
None == [ty |-> "NoneType", s |-> <<>>, n |-> 0]
empty == [ty |-> "empty", s |-> <<>>, n |-> 0]

\* outcome of a call: it returns a value or raises an exception
Return(op, v, w) ==
    [op |-> op, arg |-> None, kind |-> "return", exc |-> "", val |-> v, warns |-> w]
Raise(op, e) ==
    [op |-> op, arg |-> None, kind |-> "raise", exc |-> e, val |-> None, warns |-> 0]
NoCall ==
    [op |-> "", arg |-> None, kind |-> "", exc |-> "", val |-> None, warns |-> 0]
WithArg(r, a) == [r EXCEPT !.arg = a]

\* constants of cache3.setting (time and size constants scaled down)
DEFAULT_TAG == <<"d", "e", "f", "a", "u", "l", "t">>
DEFAULT_NAME == <<"c">>
DEFAULT_TIMEOUT == 3
MIN_TIMEOUT == 0
MAX_TIMEOUT == 4
MAX_KEY_LENGTH == 4
DEFAULT_MAX_SIZE == 2
EVICT_LRU == "lru_evict"
EVICT_FIFO == "fifo_evict"
EVICT_LFU == "lfu_evict"
DEFAULT_EVICT == EVICT_LRU
DEFAULT_CULL_SIZE == 10

----------------------------------------------------------------------------
(* Key codec *)

StringsUpTo(n) == UNION {[1..m -> Alphabet] : m \in 0..n}

Digit(d) == CASE d = 0 -> "0" [] d = 1 -> "1" [] d = 2 -> "2" [] d = 3 -> "3"
              [] d = 4 -> "4" [] d = 5 -> "5" [] d = 6 -> "6" [] d = 7 -> "7"
              [] d = 8 -> "8" [] d = 9 -> "9"

RECURSIVE Decimal(_)
Decimal(n) == IF n < 10 THEN <<Digit(n)>> ELSE Decimal(n \div 10) \o <<Digit(n % 10)>>

\* '%s' % v
Format(v) == CASE v.ty = "str" -> v.s
               [] v.ty = "int" -> IF v.n < 0 THEN <<"-">> \o Decimal(-v.n) ELSE Decimal(v.n)
               [] v.ty = "NoneType" -> <<"N", "o", "n", "e">>

\* c in s, for a one-character c
Contains(s, c) == \E i \in 1..Len(s) : s[i] = c

\* make_key testing only whether the tag starts with the separator
make_key_startswith(key, tag) ==
    IF tag.ty # "str" THEN Raise("make_key", "TypeError")
    ELSE IF Len(tag.s) > 0 /\ tag.s[1] = ":" THEN Raise("make_key", "ValueError")
    ELSE Return("make_key", PyStr(Format(key) \o <<":">> \o Format(tag)), 0)

\* make_key leaving the tag out of the storage key
make_key_no_tag(key, tag) ==
    IF tag.ty # "str" THEN Raise("make_key", "TypeError")
    ELSE IF Contains(tag.s, ":") THEN Raise("make_key", "ValueError")
    ELSE Return("make_key", PyStr(Format(key) \o <<":">>), 0)

\* BaseCache.make_key
make_key(key, tag) ==
    IF tag.ty # "str" THEN Raise("make_key", "TypeError")
    ELSE IF Contains(tag.s, ":") THEN Raise("make_key", "ValueError")
    ELSE Return("make_key", PyStr(Format(key) \o <<":">> \o Format(tag)), 0)

\* s.split(':', 1): splits at the first separator
SplitFirst(s) ==
    IF Contains(s, ":")
    THEN LET i == CHOOSE j \in 1..Len(s) :
                      s[j] = ":" /\ \A k \in 1..(j-1) : s[k] # ":"
         IN <<SubSeq(s, 1, i - 1), SubSeq(s, i + 1, Len(s))>>
    ELSE <<s>>

\* s.rsplit(':', 1)
RSplit(s) ==
    IF Contains(s, ":")
    THEN LET i == CHOOSE j \in 1..Len(s) :
                      s[j] = ":" /\ \A k \in (j+1)..Len(s) : s[k] # ":"
         IN <<SubSeq(s, 1, i - 1), SubSeq(s, i + 1, Len(s))>>
    ELSE <<s>>

\* BaseCache._get_key_tag
get_key_tag(serial_key) == RSplit(serial_key.s)

\* validate_key rejecting a key longer than MAX_KEY_LENGTH
validate_key_strict(key) ==
    IF key.ty # "str" THEN <<"The key must be a string", FALSE, 0>>
    ELSE IF Len(key.s) > MAX_KEY_LENGTH THEN <<"The key is too long", FALSE, 1>>
    ELSE <<"", TRUE, 0>>

\* BaseCache.validate_key: <<msg, validated, warnings>>
validate_key(key) ==
    IF key.ty # "str" THEN <<"The key must be a string", FALSE, 0>>
    ELSE <<"", TRUE, IF Len(key.s) > MAX_KEY_LENGTH THEN 1 ELSE 0>>

\* make_and_validate_key validating the raw key before it is formatted
make_and_validate_key_raw(key, tag) ==
    IF ~validate_key(key)[2] THEN Raise("make_and_validate_key", "InvalidCacheKey")
    ELSE LET made == make_key(key, tag) IN
         IF made.kind = "raise" THEN [made EXCEPT !.op = "make_and_validate_key"]
         ELSE Return("make_and_validate_key", made.val, validate_key(made.val)[3])

\* BaseCache.make_and_validate_key
make_and_validate_key(key, tag) ==
    LET made == make_key(key, tag) IN
    IF made.kind = "raise" THEN [made EXCEPT !.op = "make_and_validate_key"]
    ELSE LET v == validate_key(made.val) IN
         IF v[2] THEN Return("make_and_validate_key", made.val, v[3])
         ELSE Raise("make_and_validate_key", "InvalidCacheKey")

RawKeys == {PyStr(s) : s \in StringsUpTo(MaxLen)} \cup {PyInt(n) : n \in {0, 7, MaxInt}}
Tags == {PyStr(s) : s \in StringsUpTo(MaxLen)} \cup {PyStr(DEFAULT_TAG)}
TagArgs == Tags \cup {None}

----------------------------------------------------------------------------
(* BaseCache.__init__ *)

Constructed(n, t, m) ==
    /\ name = n
    /\ timeout = t
    /\ max_size = m
    /\ evict = DEFAULT_EVICT
    /\ cull_size = 10

\* names under which the evictor may look for a backend member
PolicyNames == {EVICT_LRU, EVICT_FIFO, EVICT_LFU, "mru_evict"}
\* a backend member is missing, a method, or a non-callable attribute
MemberKinds == {"missing", "callable", "data"}
NoMembers == [a \in PolicyNames |-> "missing"]

\* the backend storage maps a storage key to [value, expire]
EmptyStore == [k \in {} |-> None]
Put(st, sk, e) == [k \in DOMAIN st \cup {sk} |-> IF k = sk THEN e ELSE st[k]]
Remove(st, sk) == [k \in DOMAIN st \ {sk} |-> st[k]]

cfgVars == <<name, timeout, max_size, evict, cull_size>>
memoVars == <<pc, local, invoked, completed, decorators, wrappers>>

----------------------------------------------------------------------------
(* Specification of the key codec: the inputs are drawn at Init *)

KeyInit ==
    /\ inKey \in RawKeys
    /\ inTag \in TagArgs
    /\ Constructed(DEFAULT_NAME, DEFAULT_TIMEOUT, DEFAULT_MAX_SIZE)
    /\ members = NoMembers
    /\ store = EmptyStore
    /\ now = 0
    /\ pc = <<>> /\ local = <<>> /\ invoked = <<>> /\ completed = <<>>
    /\ decorators = {} /\ wrappers = {}
    /\ ret = NoCall

MakeKey ==
    /\ ret' = make_key(inKey, inTag)
    /\ UNCHANGED <<inKey, inTag, cfgVars, members, store, now, memoVars>>

MakeAndValidateKey ==
    /\ ret' = make_and_validate_key(inKey, inTag)
    /\ UNCHANGED <<inKey, inTag, cfgVars, members, store, now, memoVars>>

GetKeyTag ==
    /\ ret.op \in {"make_key", "make_and_validate_key"}
    /\ ret.kind = "return"
    /\ ret' = WithArg(Return("_get_key_tag", get_key_tag(ret.val), 0), ret.val)
    /\ UNCHANGED <<inKey, inTag, cfgVars, members, store, now, memoVars>>

----------------------------------------------------------------------------
(* Claims on the key codec *)

\* C6: for every raw string key k (separators allowed) and every separator-free
\* tag t, splitting make_key(k, t) on the last ':' gives back exactly (k, t).
C6_RoundTrip ==
    (ret.op = "_get_key_tag" /\ inKey.ty = "str")
        => /\ inTag.ty = "str"
           /\ ret.arg = PyStr(inKey.s \o <<":">> \o inTag.s)
           /\ ret.val = <<inKey.s, inTag.s>>

C6_Witness ==
    /\ ret.op = "_get_key_tag"
    /\ inKey.ty = "str"
    /\ Contains(inKey.s, ":")
    /\ ret.val = <<inKey.s, inTag.s>>

\* C7: make_key raises the tag error (ValueError in the code) for every tag that
\* contains ':' anywhere, for every raw key, and yields no storage key.
C7_InvalidTagRaises ==
    (/\ ret.op \in {"make_key", "make_and_validate_key"}
     /\ inTag.ty = "str"
     /\ Contains(inTag.s, ":"))
        => /\ ret.kind = "raise"
           /\ ret.exc = "ValueError"
           /\ ret.val = None

C7_Witness ==
    /\ ret.op = "make_key"
    /\ inTag.ty = "str"
    /\ Len(inTag.s) > 1
    /\ inTag.s[1] # ":"
    /\ inTag.s[Len(inTag.s)] = ":"
    /\ ret.kind = "raise"

\* C8: with the tag absent (None) make_key and make_and_validate_key return the
\* storage key built with DEFAULT_TAG, without raising.
C8_DefaultTagSubstituted ==
    (ret.op \in {"make_key", "make_and_validate_key"} /\ inTag = None)
        => /\ ret.kind = "return"
           /\ ret.val = PyStr(Format(inKey) \o <<":">> \o DEFAULT_TAG)

----------------------------------------------------------------------------
(* Configuration: the field validators, config() and the evictor property *)

\* EnumerateValidate(EVICT_LRU, EVICT_FIFO, EVICT_LFU)
EvictValid(v) == v \in {EVICT_LRU, EVICT_FIFO, EVICT_LFU}
\* NumberValidate(minvalue=0)
CullSizeValid(v) == v >= 0

EvictOptions == PolicyNames \cup {"no_such_evict"}
CullOptions == (-1..MaxCull) \cup {DEFAULT_CULL_SIZE}

\* **kwargs of config(): which options are supplied, and their values
ConfigKwargs ==
    {kw \in [hasE : BOOLEAN, e : EvictOptions, hasC : BOOLEAN, c : CullOptions] :
        /\ (~kw.hasE => kw.e = DEFAULT_EVICT)
        /\ (~kw.hasC => kw.c = DEFAULT_CULL_SIZE)}

\* kwargs.get('evict', DEFAULT_EVICT), kwargs.get('cull_size', DEFAULT_CULL_SIZE)
KwEvict(kw) == IF kw.hasE THEN kw.e ELSE DEFAULT_EVICT
KwCullSize(kw) == IF kw.hasC THEN kw.c ELSE DEFAULT_CULL_SIZE

\* config() writing the private attributes directly, past the validators
Config_direct ==
    \E kw \in ConfigKwargs :
        /\ evict' = KwEvict(kw)
        /\ cull_size' = KwCullSize(kw)
        /\ ret' = WithArg(Return("config", None, 0), kw)
        /\ UNCHANGED <<inKey, inTag, name, timeout, max_size, members, store, now, memoVars>>

\* config() keeping the current value of an option that is not supplied
Config_keep ==
    \E kw \in ConfigKwargs :
        LET e == IF kw.hasE THEN kw.e ELSE evict
            c == IF kw.hasC THEN kw.c ELSE cull_size
        IN
        /\ IF ~EvictValid(e)
           THEN /\ ret' = WithArg(Raise("config", "ValueError"), kw)
                /\ UNCHANGED <<evict, cull_size>>
           ELSE /\ evict' = e
                /\ IF ~CullSizeValid(c)
                   THEN /\ ret' = WithArg(Raise("config", "ValueError"), kw)
                        /\ UNCHANGED cull_size
                   ELSE /\ cull_size' = c
                        /\ ret' = WithArg(Return("config", None, 0), kw)
        /\ UNCHANGED <<inKey, inTag, name, timeout, max_size, members, store, now, memoVars>>

\* BaseCache.config: two descriptor assignments in sequence; each validates,
\* then stores, and a failed validation raises out of config
Config ==
    \E kw \in ConfigKwargs :
        /\ IF ~EvictValid(KwEvict(kw))
           THEN /\ ret' = WithArg(Raise("config", "ValueError"), kw)
                /\ UNCHANGED <<evict, cull_size>>
           ELSE /\ evict' = KwEvict(kw)
                /\ IF ~CullSizeValid(KwCullSize(kw))
                   THEN /\ ret' = WithArg(Raise("config", "ValueError"), kw)
                        /\ UNCHANGED cull_size
                   ELSE /\ cull_size' = KwCullSize(kw)
                        /\ ret' = WithArg(Return("config", None, 0), kw)
        /\ UNCHANGED <<inKey, inTag, name, timeout, max_size, members, store, now, memoVars>>

Method(a) == [ty |-> "method", s |-> <<a>>, n |-> 0]
ObjectType == [ty |-> "type", s |-> <<"object">>, n |-> 0]

\* evictor that hands back whatever getattr found
evictor_unchecked(mem, ev) ==
    IF mem[ev] = "missing" THEN Return("evictor", ObjectType, 1)
    ELSE Return("evictor", Method(ev), 0)

\* BaseCache.evictor (property)
evictor(mem, ev) ==
    IF mem[ev] = "missing" THEN Return("evictor", ObjectType, 1)
    ELSE IF mem[ev] # "callable" THEN Return("evictor", ObjectType, 1)
    ELSE Return("evictor", Method(ev), 0)

Evictor ==
    /\ ret' = evictor(members, evict)
    /\ UNCHANGED <<inKey, inTag, cfgVars, members, store, now, memoVars>>

\* calling what the evictor returned: object() builds a fresh object, a
\* backend method evicts an entry
CallEvictor ==
    /\ ret.op = "evictor"
    /\ ret.kind = "return"
    /\ IF ret.val = ObjectType
       THEN store' = store
       ELSE \/ DOMAIN store = {} /\ store' = store
            \/ \E sk \in DOMAIN store : store' = Remove(store, sk)
    /\ ret' = WithArg(Return("call_evictor", None, 0), ret.val)
    /\ UNCHANGED <<inKey, inTag, cfgVars, members, now, memoVars>>

SampleEntry == [value |-> None, expire |-> None]
SampleStores ==
    {EmptyStore,
     Put(EmptyStore, <<"a", ":", "a">>, SampleEntry),
     Put(Put(EmptyStore, <<"a", ":", "a">>, SampleEntry), <<":", ":", "a">>, SampleEntry)}

ConfigInit ==
    /\ inKey = PyStr(<<>>)
    /\ inTag = None
    /\ Constructed(DEFAULT_NAME, DEFAULT_TIMEOUT, DEFAULT_MAX_SIZE)
    /\ members \in [PolicyNames -> MemberKinds]
    /\ store \in SampleStores
    /\ now = 0
    /\ pc = <<>> /\ local = <<>> /\ invoked = <<>> /\ completed = <<>>
    /\ decorators = {} /\ wrappers = {}
    /\ ret = NoCall

ConfigNext == Config \/ Evictor \/ CallEvictor

SpecConfig == ConfigInit /\ [][ConfigNext]_vars

----------------------------------------------------------------------------
(* Claims on the configuration *)

\* C1: config() never partially applies: after a call either evict and cull_size
\* both hold the supplied (or default) values, or the call raised and both
\* still hold their previous values.
C1_ConfigAtomic ==
    [][ret'.op = "config"
        => \/ /\ ret'.kind = "return"
              /\ evict' = KwEvict(ret'.arg)
              /\ cull_size' = KwCullSize(ret'.arg)
           \/ /\ ret'.kind = "raise"
              /\ evict' = evict
              /\ cull_size' = cull_size]_vars

\* C9: resolving the eviction policy never raises; a missing or non-callable
\* member gives one warning and the callable fallback, whose call leaves the
\* storage unchanged; a callable member is returned as is, with no warning.
C9_EvictorResolves ==
    /\ [](ret.op = "evictor"
            => /\ ret.kind = "return"
               /\ (members[evict] # "callable"
                      => ret.warns = 1 /\ ret.val = ObjectType)
               /\ (members[evict] = "callable"
                      => ret.warns = 0 /\ ret.val = Method(evict)))
    /\ [][(ret'.op = "call_evictor" /\ ret'.arg = ObjectType)
            => store' = store]_vars

C9_Witness ==
    /\ ret.op = "call_evictor"
    /\ ret.arg = ObjectType
    /\ members[evict] = "data"
    /\ DOMAIN store # {}

\* C10: on a backend implementing mru_evict, after config(evict="mru_evict")
\* the configuration holds evict = "mru_evict" and the evictor resolves to
\* the backend's mru_evict.
C10_CustomPolicySelectable ==
    (/\ ret.op = "config"
     /\ ret.arg.hasE
     /\ ret.arg.e = "mru_evict"
     /\ members["mru_evict"] = "callable")
        => /\ evict = "mru_evict"
           /\ evictor(members, evict).val = Method("mru_evict")

----------------------------------------------------------------------------
(* Backend primitives: the storage behind set / get / delete *)

\* get_backend_timeout resolving the sentinel to the process-wide default
get_backend_timeout_global(tmo, t) ==
    LET resolved == IF tmo = PyInt(DEFAULT_TIMEOUT) THEN PyInt(DEFAULT_TIMEOUT) ELSE tmo
    IN IF resolved = None THEN None ELSE PyInt(t + resolved.n)

\* BaseCache.get_backend_timeout, at clock value t
get_backend_timeout(tmo, t) ==
    LET resolved == IF tmo = PyInt(DEFAULT_TIMEOUT) THEN PyInt(timeout) ELSE tmo
    IN IF resolved = None THEN None ELSE PyInt(t + resolved.n)

\* an entry is live until its expiry instant
Live(st, t, sk) ==
    /\ sk \in DOMAIN st
    /\ (st[sk].expire = None \/ st[sk].expire.n > t)

\* get(key, default, tag) of a backend
get(st, t, key, default, tag) ==
    LET mk == make_and_validate_key(key, tag) IN
    IF mk.kind = "raise" THEN [mk EXCEPT !.op = "get"]
    ELSE IF Live(st, t, mk.val.s) THEN Return("get", st[mk.val.s].value, mk.warns)
    ELSE Return("get", default, mk.warns)

\* the storage after set(key, value, timeout, tag) of a backend
set(st, t, key, value, tmo, tag) ==
    LET mk == make_and_validate_key(key, tag) IN
    IF mk.kind = "raise" THEN st
    ELSE Put(st, mk.val.s, [value |-> value, expire |-> get_backend_timeout(tmo, t)])

----------------------------------------------------------------------------
(* memoize: the decorated computations and the wrapper *)

Funcs == {"f", "g", "h"}
\* func.__name__: f and g are two computations defined under the same name
FuncName(fn) == IF fn = "h" THEN PyStr(<<"h">>) ELSE PyStr(<<"f">>)
Args == {"A", "B"}
\* func(*args, **kwargs); h returns None
Apply(fn, a) == IF fn = "h" THEN None ELSE PyStr(<<fn, a>>)

\* the wrappers built by memoize(tag, timeout)(func)
Decorated ==
    {[func |-> "f", tag |-> PyStr(DEFAULT_TAG), tmo |-> PyInt(DEFAULT_TIMEOUT)],
     [func |-> "g", tag |-> PyStr(DEFAULT_TAG), tmo |-> PyInt(1)],
     [func |-> "g", tag |-> PyStr(<<"a">>), tmo |-> PyInt(1)],
     [func |-> "h", tag |-> PyStr(DEFAULT_TAG), tmo |-> None]}

\* the storage key a wrapper reads and writes
SK(d) == make_key(FuncName(d.func), d.tag).val.s
MemoKeys == {SK(d) : d \in Decorated}

Bump(cnt, sk) == [cnt EXCEPT ![sk] = @ + 1]
\* the history counters restart when the entry under sk is removed or expires
Restart(cnt, gone) == [sk \in DOMAIN cnt |-> IF sk \in gone THEN 0 ELSE cnt[sk]]

\* lookup under a key that also carries the call's arguments
wrapper_get_by_args(d, a, st, t) ==
    get(st, t, PyStr(FuncName(d.func).s \o <<a>>), empty, d.tag)

\* lookup under the function object's identity instead of func.__name__
wrapper_get_by_identity(d, a, st, t) == get(st, t, PyStr(<<d.func>>), empty, d.tag)

\* wrapper, line 246: value = self.get(func.__name__, empty, tag)
wrapper_get(d, a, st, t) == get(st, t, FuncName(d.func), empty, d.tag)

\* miss test written as "if not value"
wrapper_is_miss_falsy(v) == v \in {empty, None}

\* wrapper, line 247: value is empty
wrapper_is_miss(v) == v = empty

\* a wrapper that forgets to store the computed value
wrapper_set_skipped(d, v, st, t) == st

\* wrapper, line 249: self.set(func.__name__, value, timeout, tag)
wrapper_set(d, v, st, t) == set(st, t, FuncName(d.func), v, d.tmo, d.tag)

\* BaseCache.memoize.decorator.wrapper run by one caller from start to end:
\* the outcome, the storage afterwards and the number of calls of func
wrapper(d, a, st, t) ==
    LET g == wrapper_get(d, a, st, t) IN
    IF g.kind = "raise" THEN [ret |-> [g EXCEPT !.op = "wrapper"], store |-> st, calls |-> 0]
    ELSE IF wrapper_is_miss(g.val)
    THEN LET v == Apply(d.func, a) IN
         [ret |-> Return("wrapper", v, 0), store |-> wrapper_set(d, v, st, t), calls |-> 1]
    ELSE [ret |-> Return("wrapper", g.val, 0), store |-> st, calls |-> 0]

WrapperCall ==
    \E d \in wrappers, a \in Args :
        LET w == wrapper(d, a, store, now) IN
        /\ completed[SK(d)] < MaxCalls
        /\ store' = w.store
        /\ invoked' = [invoked EXCEPT ![SK(d)] = @ + w.calls]
        /\ completed' = Bump(completed, SK(d))
        /\ ret' = WithArg(w.ret, [d |-> d, a |-> a])
        /\ UNCHANGED <<inKey, inTag, cfgVars, members, now, pc, local, decorators, wrappers>>

\* raw keys and tags handed to the backend primitives
CacheKeys == {FuncName(fn) : fn \in Funcs}
CacheTags == {d.tag : d \in Decorated}
\* the (key, tag) pairs written and deleted
CachePairs == {<<FuncName(d.func), d.tag>> : d \in Decorated}

\* delete(key, tag) of a backend
Delete ==
    \E kt \in CachePairs :
        LET sk == make_and_validate_key(kt[1], kt[2]).val.s IN
        /\ store' = Remove(store, sk)
        /\ invoked' = Restart(invoked, {sk})
        /\ completed' = Restart(completed, {sk})
        /\ ret' = WithArg(Return("delete", sk \in DOMAIN store, 0), sk)
        /\ UNCHANGED <<inKey, inTag, cfgVars, members, now, pc, local, decorators, wrappers>>

\* time passes; entries reaching their expiry instant stop being live
Tick ==
    /\ now < MaxClock
    /\ now' = now + 1
    /\ LET gone == {sk \in DOMAIN invoked : Live(store, now, sk) /\ ~Live(store, now + 1, sk)}
       IN /\ invoked' = Restart(invoked, gone)
          /\ completed' = Restart(completed, gone)
    /\ ret' = Return("tick", None, 0)
    /\ UNCHANGED <<inKey, inTag, cfgVars, members, store, pc, local, decorators, wrappers>>

MemoInit ==
    /\ inKey = PyStr(<<>>)
    /\ inTag = None
    /\ Constructed(DEFAULT_NAME, DEFAULT_TIMEOUT, DEFAULT_MAX_SIZE)
    /\ members = NoMembers
    /\ store = EmptyStore
    /\ now = 0
    /\ pc = <<>> /\ local = <<>>
    /\ decorators = {} /\ wrappers = Decorated
    /\ invoked = [sk \in MemoKeys |-> 0]
    /\ completed = [sk \in MemoKeys |-> 0]
    /\ ret = NoCall

MemoNext == WrapperCall \/ Delete \/ Tick

\* one caller at a time: each wrapper call runs to completion
SpecMemo == MemoInit /\ [][MemoNext]_vars

----------------------------------------------------------------------------
(* get_many, over the backend's set / get / delete *)

\* get_many looking keys up with the default None
RECURSIVE get_many_none_default(_, _, _, _, _, _)
get_many_none_default(st, t, keys, tag, i, returns) ==
    IF i > Len(keys) THEN Return("get_many", returns, 0)
    ELSE LET g == get(st, t, keys[i], None, tag) IN
         IF g.kind = "raise" THEN [g EXCEPT !.op = "get_many"]
         ELSE get_many_none_default(st, t, keys, tag, i + 1,
                  IF g.val # None THEN Put(returns, keys[i], g.val) ELSE returns)

\* BaseCache.get_many: the loop over keys from position i, returns built so far
RECURSIVE get_many(_, _, _, _, _, _)
get_many(st, t, keys, tag, i, returns) ==
    IF i > Len(keys) THEN Return("get_many", returns, 0)
    ELSE LET g == get(st, t, keys[i], empty, tag) IN
         IF g.kind = "raise" THEN [g EXCEPT !.op = "get_many"]
         ELSE get_many(st, t, keys, tag, i + 1,
                  IF g.val # empty THEN Put(returns, keys[i], g.val) ELSE returns)

SetValues == {None, PyInt(1)}
SetTimeouts == {None, PyInt(1)}
\* a tag holding the separator is handed to get_many as well
TagInputs == CacheTags \cup {PyStr(<<":">>)}
KeyLists == UNION {[1..m -> CacheKeys] : m \in 0..MaxKeys}
\* the (key, tag) pairs written by set; key "h" stays absent
SetPairs == {kt \in CachePairs : kt[1] = FuncName("f")}

\* set(key, value, timeout, tag) of a backend
Set ==
    \E kt \in SetPairs, v \in SetValues, tmo \in SetTimeouts :
        /\ store' = set(store, now, kt[1], v, tmo, kt[2])
        /\ ret' = WithArg(Return("set", TRUE, 0), [key |-> kt[1], tag |-> kt[2], value |-> v])
        /\ UNCHANGED <<inKey, inTag, cfgVars, members, now, memoVars>>

Get ==
    \E key \in CacheKeys, tag \in CacheTags :
        /\ ret' = WithArg(get(store, now, key, None, tag), [key |-> key, tag |-> tag])
        /\ UNCHANGED <<inKey, inTag, cfgVars, members, store, now, memoVars>>

GetMany ==
    \E keys \in KeyLists, tag \in TagInputs :
        /\ ret' = WithArg(get_many(store, now, keys, tag, 1, EmptyStore),
                          [keys |-> keys, tag |-> tag])
        /\ UNCHANGED <<inKey, inTag, cfgVars, members, store, now, memoVars>>

CacheNext == Set \/ Get \/ GetMany \/ Delete \/ Tick

SpecCache == MemoInit /\ [][CacheNext]_vars

\* the distinct keys of a list that have a live entry under the tag
PresentKeys(st, t, keys, tag) ==
    {k \in {keys[i] : i \in 1..Len(keys)} : Live(st, t, make_key(k, tag).val.s)}

\* C5: get_many(keys, tag) returns exactly the mapping from each distinct key
\* of the list that is present in the cache to get(key, tag): absent keys are
\* left out, a stored None is kept, and the cache state is unchanged.
C5_GetManyIsMappingOfGet ==
    [][(ret'.op = "get_many" /\ ~Contains(ret'.arg.tag.s, ":"))
        => LET keys == ret'.arg.keys
               tag == ret'.arg.tag
           IN /\ ret'.kind = "return"
              /\ DOMAIN ret'.val = PresentKeys(store, now, keys, tag)
              /\ \A k \in DOMAIN ret'.val :
                    ret'.val[k] = get(store, now, k, None, tag).val
              /\ store' = store
              /\ now' = now]_vars

C5_Witness ==
    /\ ret.op = "get_many"
    /\ ret.kind = "return"
    /\ Len(ret.arg.keys) = 2
    /\ ret.arg.keys[1] = ret.arg.keys[2]
    /\ DOMAIN ret.val = {ret.arg.keys[1]}
    /\ ret.val[ret.arg.keys[1]] = None

----------------------------------------------------------------------------
(* Claims on memoize, one caller at a time *)

\* C2: a call finding a live entry under (func name, tag) returns the stored
\* value and does not invoke func; a call finding none invokes func once with
\* its arguments, stores the result under the same key with the memoize
\* timeout and returns it; a stored None is a hit, so between removals the
\* computation under a key is invoked exactly once.
C2_MemoizeOnce ==
    /\ [][ret'.op = "wrapper"
            => LET d == ret'.arg.d
                   sk == SK(d)
                   v == Apply(d.func, ret'.arg.a)
               IN IF Live(store, now, sk)
                  THEN /\ ret'.val = store[sk].value
                       /\ invoked' = invoked
                       /\ store' = store
                  ELSE /\ ret'.val = v
                       /\ invoked' = Bump(invoked, sk)
                       /\ store' = Put(store, sk,
                              [value |-> v, expire |-> get_backend_timeout(d.tmo, now)])]_vars
    /\ [](\A sk \in MemoKeys : completed[sk] >= 1 => invoked[sk] = 1)

C2_Witness ==
    /\ ret.op = "wrapper"
    /\ ret.arg.d.func = "h"
    /\ ret.val = None
    /\ completed[SK(ret.arg.d)] = 2
    /\ invoked[SK(ret.arg.d)] = 1

\* C4: the key ignores the call arguments: once a call has stored a result,
\* every later call before expiry or delete returns that stored result
\* whatever its argument, and does not invoke the computation.
C4_ArgumentsIgnored ==
    [][(ret'.op = "wrapper" /\ completed[SK(ret'.arg.d)] >= 1)
        => LET sk == SK(ret'.arg.d) IN
           /\ ret'.val = store[sk].value
           /\ \E a \in Args, fn \in Funcs : ret'.val = Apply(fn, a)
           /\ store' = store
           /\ invoked' = invoked]_vars

C4_Witness ==
    /\ ret.op = "wrapper"
    /\ ret.arg.d.func = "f"
    /\ ret.arg.a = "B"
    /\ ret.val = Apply("f", "A")
    /\ invoked[SK(ret.arg.d)] = 1

\* C20: memoized computations share one entry per (name, tag). A wrapper of
\* g, a computation with the same name as f, that finds f's live result under
\* its own tag returns it without invoking g and without writing. Wrappers
\* under different tags use different storage keys: a call never changes an
\* entry under another tag, computes afresh when its own entry is not live
\* whatever is stored under other tags, and the wrapper under tag "a", which
\* only g is memoized under, never returns a result of f.
C20_SharedByNameAndTag ==
    [][ret'.op = "wrapper"
        => LET d == ret'.arg.d
               sk == SK(d)
           IN /\ (/\ d.func = "g"
                  /\ Live(store, now, sk)
                  /\ store[sk].value \in {Apply("f", a) : a \in Args})
                     => /\ ret'.val = store[sk].value
                        /\ invoked' = invoked
                        /\ store' = store
              /\ \A e \in Decorated :
                    e.tag # d.tag
                       => /\ SK(e) # sk
                          /\ SK(e) \in DOMAIN store
                                => /\ SK(e) \in DOMAIN store'
                                   /\ store'[SK(e)] = store[SK(e)]
                          /\ ~Live(store, now, sk)
                                => /\ ret'.val = Apply(d.func, ret'.arg.a)
                                   /\ invoked'[sk] = invoked[sk] + 1
              /\ d.tag # PyStr(DEFAULT_TAG)
                    => ret'.val \in {Apply("g", a) : a \in Args}]_vars

\* g's wrapper under the default tag has returned f's stored result while an
\* entry of g is stored under the other tag
C20_Witness ==
    /\ ret.op = "wrapper"
    /\ ret.arg.d.func = "g"
    /\ ret.arg.d.tag = PyStr(DEFAULT_TAG)
    /\ ret.val = Apply("f", "A")
    /\ invoked[SK(ret.arg.d)] = 1
    /\ \E e \in Decorated :
          /\ e.tag # ret.arg.d.tag
          /\ SK(e) \in DOMAIN store
          /\ store[SK(e)].value = Apply("g", "B")

----------------------------------------------------------------------------
(* memoize with concurrent callers: the wrapper's get, func call and set are
   separate steps of each caller *)

Procs == 1..MaxProcs
\* the wrappers called concurrently
ConcDecorated == {d \in Decorated : d.func \in {"f", "h"}}
IdleLocal == [d |-> CHOOSE d \in Decorated : d.func = "f", a |-> "A", value |-> empty,
              late |-> FALSE]

\* callers inside the wrapper for storage key sk
InFlight(sk) == {q \in Procs : pc[q] # "idle" /\ SK(local[q].d) = sk}

\* line 246: the lookup; the call is late when every earlier call on its key
\* has completed or is itself late
WGet(p) ==
    /\ pc[p] = "idle"
    /\ \E d \in wrappers, a \in Args :
          LET g == wrapper_get(d, a, store, now)
              sk == SK(d)
          IN /\ completed[sk] + Cardinality(InFlight(sk)) < MaxCalls + 1
             /\ g.kind = "return"
             /\ local' = [local EXCEPT ![p] =
                    [d |-> d, a |-> a, value |-> g.val,
                     late |-> completed[sk] >= 1 /\ \A q \in InFlight(sk) : local[q].late]]
             /\ pc' = [pc EXCEPT ![p] = IF wrapper_is_miss(g.val) THEN "miss" ELSE "ret"]
    /\ ret' = Return("wrapper.get", None, 0)
    /\ UNCHANGED <<inKey, inTag, cfgVars, members, store, now, invoked, completed, decorators, wrappers>>

\* line 248: value = func(*args, **kwargs)
WCompute(p) ==
    /\ pc[p] = "miss"
    /\ local' = [local EXCEPT ![p].value = Apply(local[p].d.func, local[p].a)]
    /\ invoked' = Bump(invoked, SK(local[p].d))
    /\ pc' = [pc EXCEPT ![p] = "computed"]
    /\ ret' = Return("wrapper.func", None, 0)
    /\ UNCHANGED <<inKey, inTag, cfgVars, members, store, now, completed, decorators, wrappers>>

\* line 249: self.set(func.__name__, value, timeout, tag)
WSet(p) ==
    /\ pc[p] = "computed"
    /\ store' = wrapper_set(local[p].d, local[p].value, store, now)
    /\ pc' = [pc EXCEPT ![p] = "ret"]
    /\ ret' = Return("wrapper.set", None, 0)
    /\ UNCHANGED <<inKey, inTag, cfgVars, members, now, local, invoked, completed, decorators, wrappers>>

\* line 250: return value
WReturn(p) ==
    /\ pc[p] = "ret"
    /\ ret' = WithArg(Return("wrapper", local[p].value, 0),
                      [d |-> local[p].d, a |-> local[p].a, late |-> local[p].late])
    /\ completed' = Bump(completed, SK(local[p].d))
    /\ pc' = [pc EXCEPT ![p] = "idle"]
    /\ local' = [local EXCEPT ![p] = IdleLocal]
    /\ UNCHANGED <<inKey, inTag, cfgVars, members, store, now, invoked, decorators, wrappers>>

ConcInit ==
    /\ inKey = PyStr(<<>>)
    /\ inTag = None
    /\ Constructed(DEFAULT_NAME, DEFAULT_TIMEOUT, DEFAULT_MAX_SIZE)
    /\ members = NoMembers
    /\ store = EmptyStore
    /\ now = 0
    /\ pc = [p \in Procs |-> "idle"]
    /\ local = [p \in Procs |-> IdleLocal]
    /\ decorators = {} /\ wrappers = ConcDecorated
    /\ invoked = [sk \in MemoKeys |-> 0]
    /\ completed = [sk \in MemoKeys |-> 0]
    /\ ret = NoCall

ConcNext == \E p \in Procs : WGet(p) \/ WCompute(p) \/ WSet(p) \/ WReturn(p)

SpecMemoConc == ConcInit /\ [][ConcNext]_vars

\* C3: concurrent first calls may each invoke the computation; yet once all
\* calls in flight have completed an entry is stored under the key, and every
\* later call finds it, returns its value and does not invoke the computation.
C3_SettlesToOneValue ==
    /\ [](\A sk \in MemoKeys :
            (InFlight(sk) = {} /\ completed[sk] >= 1)
                => /\ Live(store, now, sk)
                   /\ \E fn \in Funcs, a \in Args : store[sk].value = Apply(fn, a))
    /\ [](\A p \in Procs :
            (pc[p] # "idle" /\ local[p].late)
                => /\ pc[p] = "ret"
                   /\ Live(store, now, SK(local[p].d))
                   /\ local[p].value = store[SK(local[p].d)].value)
    /\ [][(ret'.op = "wrapper" /\ ret'.arg.late)
            => /\ ret'.val = store[SK(ret'.arg.d)].value
               /\ invoked' = invoked
               /\ store' = store]_vars

C3_Witness ==
    /\ ret.op = "wrapper"
    /\ ret.arg.late
    /\ invoked[SK(ret.arg.d)] >= 2
    /\ \A p \in Procs : pc[p] = "idle"

----------------------------------------------------------------------------
(* The configuration fields: assignment through the validating descriptors,
   config() and get_backend_timeout *)

\* StringValidate(minsize=1, maxsize=MAX_KEY_LENGTH)
NameValid(v) == Len(v) >= 1 /\ Len(v) <= MAX_KEY_LENGTH
\* NumberValidate(minvalue=MIN_TIMEOUT, maxvalue=MAX_TIMEOUT)
TimeoutValid(v) == v >= MIN_TIMEOUT /\ v <= MAX_TIMEOUT
\* NumberValidate(minvalue=0)
MaxSizeValid(v) == v >= 0

NameInputs ==
    {<<>>, DEFAULT_NAME, [i \in 1..MAX_KEY_LENGTH |-> "a"], [i \in 1..(MAX_KEY_LENGTH + 1) |-> "a"]}
TimeoutInputs == {MIN_TIMEOUT - 1, MIN_TIMEOUT, DEFAULT_TIMEOUT, MAX_TIMEOUT, MAX_TIMEOUT + 1}
MaxSizeInputs == {-1, 0, DEFAULT_MAX_SIZE}

\* outcome of an assignment obj.field = value: the validator runs first
SetAttr(field, value, ok) ==
    WithArg(IF ok THEN Return("setattr", None, 0) ELSE Raise("setattr", "ValueError"),
            [field |-> field, value |-> value])

SetName ==
    \E v \in NameInputs :
        /\ name' = IF NameValid(v) THEN v ELSE name
        /\ ret' = SetAttr("name", v, NameValid(v))
        /\ UNCHANGED <<inKey, inTag, timeout, max_size, evict, cull_size, members, store, now,
                       memoVars>>

SetTimeout ==
    \E v \in TimeoutInputs :
        /\ timeout' = IF TimeoutValid(v) THEN v ELSE timeout
        /\ ret' = SetAttr("timeout", v, TimeoutValid(v))
        /\ UNCHANGED <<inKey, inTag, name, max_size, evict, cull_size, members, store, now,
                       memoVars>>

SetMaxSize ==
    \E v \in MaxSizeInputs :
        /\ max_size' = IF MaxSizeValid(v) THEN v ELSE max_size
        /\ ret' = SetAttr("max_size", v, MaxSizeValid(v))
        /\ UNCHANGED <<inKey, inTag, name, timeout, evict, cull_size, members, store, now,
                       memoVars>>

SetEvict ==
    \E v \in EvictOptions :
        /\ evict' = IF EvictValid(v) THEN v ELSE evict
        /\ ret' = SetAttr("evict", v, EvictValid(v))
        /\ UNCHANGED <<inKey, inTag, name, timeout, max_size, cull_size, members, store, now,
                       memoVars>>

SetCullSize ==
    \E v \in CullOptions :
        /\ cull_size' = IF CullSizeValid(v) THEN v ELSE cull_size
        /\ ret' = SetAttr("cull_size", v, CullSizeValid(v))
        /\ UNCHANGED <<inKey, inTag, name, timeout, max_size, evict, members, store, now,
                       memoVars>>

TimeoutArgs == {None} \cup {PyInt(n) : n \in {0, 1, DEFAULT_TIMEOUT}}

GetBackendTimeout ==
    \E tmo \in TimeoutArgs :
        /\ ret' = WithArg(Return("get_backend_timeout", get_backend_timeout(tmo, now), 0), tmo)
        /\ UNCHANGED <<inKey, inTag, cfgVars, members, store, now, memoVars>>

\* the constructor assigns name, timeout and max_size through their validators,
\* so an object exists only for arguments they accept
FieldsInit ==
    /\ inKey = PyStr(<<>>)
    /\ inTag = None
    /\ \E n \in NameInputs, t \in TimeoutInputs, m \in MaxSizeInputs :
          /\ NameValid(n) /\ TimeoutValid(t) /\ MaxSizeValid(m)
          /\ Constructed(n, t, m)
    /\ members = NoMembers
    /\ store = EmptyStore
    /\ now \in 0..MaxClock
    /\ pc = <<>> /\ local = <<>> /\ invoked = <<>> /\ completed = <<>>
    /\ decorators = {} /\ wrappers = {}
    /\ ret = NoCall

FieldsNext ==
    \/ SetName \/ SetTimeout \/ SetMaxSize \/ SetEvict \/ SetCullSize
    \/ Config \/ GetBackendTimeout

SpecFields == FieldsInit /\ [][FieldsNext]_vars

\* the value carried by an assignment is accepted by the field's validator
AssignValid(a) ==
    CASE a.field = "name" -> NameValid(a.value)
      [] a.field = "timeout" -> TimeoutValid(a.value)
      [] a.field = "max_size" -> MaxSizeValid(a.value)
      [] a.field = "evict" -> EvictValid(a.value)
      [] a.field = "cull_size" -> CullSizeValid(a.value)

\* C11: in every state after construction, field assignments and config()
\* calls, name has 1..MAX_KEY_LENGTH characters, timeout lies in
\* [MIN_TIMEOUT, MAX_TIMEOUT], max_size >= 0, cull_size >= 0 and evict is an
\* allowed name; an out-of-bounds assignment raises and every field keeps
\* its previous value.
C11_ConfigInvariant ==
    /\ [](/\ NameValid(name)
          /\ TimeoutValid(timeout)
          /\ MaxSizeValid(max_size)
          /\ CullSizeValid(cull_size)
          /\ EvictValid(evict))
    /\ [][ret'.op = "setattr"
            => /\ (ret'.kind = "raise") = ~AssignValid(ret'.arg)
               /\ (ret'.kind = "raise" => cfgVars' = cfgVars)]_vars

C11_Witness ==
    /\ ret.op = "setattr"
    /\ ret.kind = "raise"
    /\ ret.arg.field = "name"
    /\ ret.arg.value = <<>>
    /\ name = [i \in 1..MAX_KEY_LENGTH |-> "a"]

\* C12: get_backend_timeout resolves the "use default" sentinel to the
\* configured timeout field, returns None for None and clock + timeout
\* otherwise, and changes no state.
C12_BackendTimeout ==
    /\ [](ret.op = "get_backend_timeout"
            => /\ ret.kind = "return"
               /\ ret.val = IF ret.arg = PyInt(DEFAULT_TIMEOUT) THEN PyInt(now + timeout)
                             ELSE IF ret.arg = None THEN None
                             ELSE PyInt(now + ret.arg.n))
    /\ [][ret'.op = "get_backend_timeout"
            => /\ cfgVars' = cfgVars
               /\ store' = store
               /\ now' = now]_vars

C12_Witness ==
    /\ ret.op = "get_backend_timeout"
    /\ ret.arg = PyInt(DEFAULT_TIMEOUT)
    /\ timeout # DEFAULT_TIMEOUT
    /\ now > 0
    /\ ret.val = PyInt(now + timeout)

----------------------------------------------------------------------------
(* The key codec under set / get: one (key, tag) pair is written, any tag is
   read *)

\* set(inKey, v, None, inTag) of a backend
KeySet ==
    \E v \in SetValues :
        LET mk == make_and_validate_key(inKey, inTag) IN
        /\ store' = set(store, now, inKey, v, None, inTag)
        /\ ret' = IF mk.kind = "raise" THEN [mk EXCEPT !.op = "set"]
                  ELSE Return("set", TRUE, mk.warns)
        /\ UNCHANGED <<inKey, inTag, cfgVars, members, now, memoVars>>

\* get(inKey, empty, tag) of a backend, under any tag
KeyGet ==
    \E tag \in Tags :
        /\ ret' = WithArg(get(store, now, inKey, empty, tag), [tag |-> tag])
        /\ UNCHANGED <<inKey, inTag, cfgVars, members, store, now, memoVars>>

KeyNext == MakeKey \/ MakeAndValidateKey \/ GetKeyTag \/ KeySet \/ KeyGet

SpecKey == KeyInit /\ [][KeyNext]_vars

\* C13: make_and_validate_key raises InvalidCacheKey exactly when validate_key
\* rejects the composed key and otherwise returns the key make_key built; a
\* composed key longer than MAX_KEY_LENGTH is returned all the same, with
\* one warning.
C13_MakeAndValidate ==
    ret.op = "make_and_validate_key"
        => LET mk == make_key(inKey, inTag) IN
           IF mk.kind = "raise"
           THEN ret.kind = "raise" /\ ret.exc = mk.exc /\ ret.exc # "InvalidCacheKey"
           ELSE /\ (ret.exc = "InvalidCacheKey") = ~validate_key(mk.val)[2]
                /\ (validate_key(mk.val)[2] => ret.kind = "return" /\ ret.val = mk.val)
                /\ (Len(mk.val.s) > MAX_KEY_LENGTH
                       => ret.kind = "return" /\ ret.val = mk.val /\ ret.warns = 1)
                /\ (Len(mk.val.s) <= MAX_KEY_LENGTH => ret.warns = 0)

C13_Witness ==
    /\ ret.op = "make_and_validate_key"
    /\ ret.kind = "return"
    /\ Len(ret.val.s) > MAX_KEY_LENGTH
    /\ ret.warns = 1

\* C15: the tag is part of the key's identity: after set(k, v, tag=t) a get
\* of k hits under t and misses under every other tag; for string keys and
\* separator-free tags two (key, tag) pairs give the same storage key only
\* if they are the same pair.
C15_TagInIdentity ==
    /\ (ret.op = "get" /\ ret.kind = "return")
          => ret.val = IF ret.arg.tag = inTag /\ DOMAIN store # {}
                       THEN store[CHOOSE sk \in DOMAIN store : TRUE].value
                       ELSE empty
    /\ (inKey.ty = "str" /\ inTag.ty = "str" /\ ~Contains(inTag.s, ":"))
          => \A k2 \in RawKeys, t2 \in Tags :
                (/\ k2.ty = "str"
                 /\ ~Contains(t2.s, ":")
                 /\ make_key(k2, t2).val = make_key(inKey, inTag).val)
                    => k2 = inKey /\ t2 = inTag

C15_Witness ==
    /\ ret.op = "get"
    /\ ret.kind = "return"
    /\ DOMAIN store # {}
    /\ ret.arg.tag # inTag
    /\ Contains(inKey.s, ":")
    /\ ret.val = empty

\* C19: make_and_validate_key never rejects a raw key for not being text:
\* the key is formatted before it is validated, so with a separator-free tag
\* every raw key yields a storage key, and a non-string key shares it with
\* the string of its textual form.
C19_NonTextKeyAccepted ==
    ret.op = "make_and_validate_key"
        => /\ ret.exc # "InvalidCacheKey"
           /\ (inTag.ty = "str" /\ ~Contains(inTag.s, ":"))
                 => /\ ret.kind = "return"
                    /\ ret.val = PyStr(Format(inKey) \o <<":">> \o inTag.s)
                    /\ ret.val = make_and_validate_key(PyStr(Format(inKey)), inTag).val

C19_Witness ==
    /\ ret.op = "make_and_validate_key"
    /\ ret.kind = "return"
    /\ inKey.ty = "int"
    /\ inKey.n >= 10
    /\ ret.val = PyStr(Decimal(inKey.n) \o <<":">> \o inTag.s)
    /\ ret.val.s[1] = "1"
    /\ ret.val.s[3] = ":"

----------------------------------------------------------------------------
(* incr / decr *)

\* incr(key, delta, tag) of a backend: the outcome and the storage afterwards
incr(st, t, key, delta, tag) ==
    LET mk == make_and_validate_key(key, tag) IN
    IF mk.kind = "raise" THEN [ret |-> [mk EXCEPT !.op = "incr"], store |-> st]
    ELSE IF ~Live(st, t, mk.val.s) THEN [ret |-> Raise("incr", "ValueError"), store |-> st]
    ELSE IF st[mk.val.s].value.ty # "int" THEN [ret |-> Raise("incr", "TypeError"), store |-> st]
    ELSE LET v == PyInt(st[mk.val.s].value.n + delta) IN
         [ret |-> Return("incr", v, mk.warns),
          store |-> [st EXCEPT ![mk.val.s].value = v]]

\* decr handing delta on without negating it
decr_unnegated(st, t, key, delta, tag) == incr(st, t, key, delta, tag)

\* BaseCache.decr
decr(st, t, key, delta, tag) == incr(st, t, key, -delta, tag)

Deltas == {-1, 0, 1, 2}
CounterPairs == {kt \in CachePairs : kt[1] = FuncName("f")}
CounterValues == {None, PyInt(0)}

\* the counter stays within the modelled range
InRange(r) == r.kind = "return" => (r.val.n >= -MaxVal /\ r.val.n <= MaxVal)

SetCounter ==
    \E v \in CounterValues, tmo \in SetTimeouts :
        /\ store' = set(store, now, FuncName("f"), v, tmo, PyStr(DEFAULT_TAG))
        /\ ret' = Return("set", TRUE, 0)
        /\ UNCHANGED <<inKey, inTag, cfgVars, members, now, memoVars>>

Incr ==
    \E kt \in CounterPairs, d \in Deltas :
        LET r == incr(store, now, kt[1], d, kt[2]) IN
        /\ InRange(r.ret)
        /\ store' = r.store
        /\ ret' = WithArg(r.ret, [key |-> kt[1], tag |-> kt[2], delta |-> d])
        /\ UNCHANGED <<inKey, inTag, cfgVars, members, now, memoVars>>

Decr ==
    \E kt \in CounterPairs, d \in Deltas :
        LET r == decr(store, now, kt[1], d, kt[2]) IN
        /\ InRange(r.ret)
        /\ store' = r.store
        /\ ret' = WithArg([r.ret EXCEPT !.op = "decr"],
                          [key |-> kt[1], tag |-> kt[2], delta |-> d])
        /\ UNCHANGED <<inKey, inTag, cfgVars, members, now, memoVars>>

CounterNext == SetCounter \/ Incr \/ Decr \/ Delete \/ Tick

SpecCounter == MemoInit /\ [][CounterNext]_vars

\* C14: decr(k, d) returns what incr(k, -d) returns and leaves the cache as
\* incr(k, -d) leaves it: a live counter v becomes v - d; on an absent key it
\* raises the same ValueError and the cache is unchanged.
C14_DecrIsNegatedIncr ==
    [][ret'.op = "decr"
        => LET a == ret'.arg
               sk == make_key(a.key, a.tag).val.s
               i == incr(store, now, a.key, -a.delta, a.tag)
           IN /\ ret'.kind = i.ret.kind
              /\ ret'.exc = i.ret.exc
              /\ ret'.val = i.ret.val
              /\ store' = i.store
              /\ (~Live(store, now, sk)
                    => ret'.kind = "raise" /\ ret'.exc = "ValueError" /\ store' = store)
              /\ ((Live(store, now, sk) /\ store[sk].value.ty = "int")
                    => /\ ret'.val = PyInt(store[sk].value.n - a.delta)
                       /\ store'[sk].value = ret'.val
                       /\ store'[sk].expire = store[sk].expire)]_vars

C14_Witness ==
    /\ ret.op = "decr"
    /\ ret.kind = "return"
    /\ ret.arg.delta = 2
    /\ ret.val = PyInt(-1)
    /\ store[make_key(ret.arg.key, ret.arg.tag).val.s].value = PyInt(-1)

----------------------------------------------------------------------------
(* memoize(tag, timeout): building the decorator, then the wrapper *)

\* callable(tag): functions, bound methods and classes can be called
IsCallable(v) == v.ty \in {"function", "method", "type"}
\* the function object a caller defined under the name fn
Function(fn) == [ty |-> "function", s |-> <<fn>>, n |-> 0]

\* memoize without the callable(tag) guard
memoize_unchecked(tag, tmo) == Return("memoize", [tag |-> tag, tmo |-> tmo], 0)

\* BaseCache.memoize: the decorator closes over tag and timeout
memoize(tag, tmo) ==
    IF IsCallable(tag) THEN Raise("memoize", "TypeError")
    ELSE Return("memoize", [tag |-> tag, tmo |-> tmo], 0)

\* the arguments memoize is called with: those of the correct use
\* '@cache.memoize(tag, timeout)', and a function or a class in the place of
\* the tag, which is what '@cache.memoize' passes
MemoizeArgs ==
    {<<d.tag, d.tmo>> : d \in ConcDecorated}
        \cup {<<Function(fn), PyInt(DEFAULT_TIMEOUT)>> : fn \in {"f", "h"}}
        \cup {<<ObjectType, PyInt(DEFAULT_TIMEOUT)>>}

Memoize ==
    \E a \in MemoizeArgs :
        LET r == memoize(a[1], a[2]) IN
        /\ decorators' = IF r.kind = "return" THEN decorators \cup {r.val} ELSE decorators
        /\ ret' = WithArg(r, [tag |-> a[1], tmo |-> a[2]])
        /\ UNCHANGED <<inKey, inTag, cfgVars, members, store, now, pc, local, invoked,
                       completed, wrappers>>

\* decorator(func): wraps func, closing over the decorator's tag and timeout
Decorate ==
    \E d \in ConcDecorated :
        /\ [tag |-> d.tag, tmo |-> d.tmo] \in decorators
        /\ wrappers' = wrappers \cup {d}
        /\ ret' = WithArg(Return("decorator", None, 0), d)
        /\ UNCHANGED <<inKey, inTag, cfgVars, members, store, now, pc, local, invoked,
                       completed, decorators>>

DecorateInit ==
    /\ inKey = PyStr(<<>>)
    /\ inTag = None
    /\ Constructed(DEFAULT_NAME, DEFAULT_TIMEOUT, DEFAULT_MAX_SIZE)
    /\ members = NoMembers
    /\ store = EmptyStore
    /\ now = 0
    /\ pc = <<>> /\ local = <<>>
    /\ decorators = {} /\ wrappers = {}
    /\ invoked = [sk \in MemoKeys |-> 0]
    /\ completed = [sk \in MemoKeys |-> 0]
    /\ ret = NoCall

DecorateNext == Memoize \/ Decorate \/ WrapperCall

SpecDecorate == DecorateInit /\ [][DecorateNext]_vars

\* C16: memoize(tag, timeout) called with a callable in the place of the tag
\* raises TypeError itself, at the time the decorator would be built: no
\* decorator is returned and no wrapper is built by the call, the callable
\* passed is not invoked, and the cache is neither read nor written.
C16_CallableTagRejected ==
    [][(ret'.op = "memoize" /\ IsCallable(ret'.arg.tag))
         => /\ ret'.kind = "raise"
            /\ ret'.exc = "TypeError"
            /\ decorators' = decorators
            /\ wrappers' = wrappers
            /\ store' = store
            /\ invoked' = invoked]_vars

\* memoize has rejected a function while wrappers built by earlier correct
\* uses exist and have filled the cache
C16_Witness ==
    /\ ret.op = "memoize"
    /\ ret.arg.tag = Function("f")
    /\ ret.kind = "raise"
    /\ wrappers # {}
    /\ DOMAIN store # {}

----------------------------------------------------------------------------
(* capacity: a backend's write consults the eviction policy *)

\* capacity test without the "0 means unbounded" case
EvictionNeeded_zero_is_bound(count, msz) == count > msz

\* the capacity policy: eviction is needed when the stored-entry count
\* exceeds max_size, and never when max_size is 0
EvictionNeeded(count, msz) == msz # 0 /\ count > msz

Min(a, b) == IF a < b THEN a ELSE b
\* calls of the resolved operation in one pass: until under budget, and at
\* most cull_size
CullCount(count, msz, cull) == Min(cull, count - msz)

\* max_size given to the constructor
CapacitySizes == 0..DEFAULT_MAX_SIZE
\* the backend either has the default policy's operation or lacks it
CapacityMembers == {NoMembers, [NoMembers EXCEPT ![DEFAULT_EVICT] = "callable"]}

\* set(key, value, timeout, tag) of a backend with the capacity policy:
\* after the insertion the resolved operation is invoked when eviction is
\* needed; which entries a policy removes is the backend's choice
CapacitySet ==
    \E kt \in CachePairs, v \in SetValues :
        LET st1 == set(store, now, kt[1], v, None, kt[2])
            count == Cardinality(DOMAIN st1)
            needed == EvictionNeeded(count, max_size)
            calls == IF needed THEN CullCount(count, max_size, cull_size) ELSE 0
            ev == evictor(members, evict)
        IN
        /\ IF needed /\ ev.val # ObjectType
           THEN \E G \in SUBSET DOMAIN st1 :
                   /\ Cardinality(G) = calls
                   /\ store' = [k \in DOMAIN st1 \ G |-> st1[k]]
                   /\ invoked' = Restart(invoked, G)
                   /\ completed' = Restart(completed, G)
           ELSE /\ store' = st1
                /\ UNCHANGED <<invoked, completed>>
        /\ ret' = WithArg(Return("set", TRUE, IF needed THEN ev.warns ELSE 0),
                          [key |-> kt[1], tag |-> kt[2], value |-> v,
                           needed |-> needed, evictions |-> calls])
        /\ UNCHANGED <<inKey, inTag, cfgVars, members, now, pc, local, decorators, wrappers>>

CapacityInit ==
    /\ inKey = PyStr(<<>>)
    /\ inTag = None
    /\ \E m \in CapacitySizes : Constructed(DEFAULT_NAME, DEFAULT_TIMEOUT, m)
    /\ members \in CapacityMembers
    /\ store = EmptyStore
    /\ now = 0
    /\ pc = <<>> /\ local = <<>>
    /\ decorators = {} /\ wrappers = {}
    /\ invoked = [sk \in MemoKeys |-> 0]
    /\ completed = [sk \in MemoKeys |-> 0]
    /\ ret = NoCall

CapacityNext == CapacitySet \/ Delete \/ SetMaxSize

SpecCapacity == CapacityInit /\ [][CapacityNext]_vars

====
